---- MODULE Spec2Model ----
(***************************************************************************)
(* A model of src/main.py: the tools of the "Notion - Manager" server.     *)
(* Each tool invocation is a small sequential process: it builds a         *)
(* request, hands it to the transport (requests.get/post/patch), and acts  *)
(* on the response the upstream server chose.  The upstream server is the  *)
(* environment: it answers every request with a status and a body of its   *)
(* own choosing, or the transport raises.                                  *)
(*                                                                         *)
(* Python values: a str that is an identifier is a sequence of characters  *)
(* (so that str.replace can be computed), a dict is a record, a list is a  *)
(* sequence, None where a str is expected is the string NONE.  An f-string *)
(* is the sequence of its pieces.                                          *)
(***************************************************************************)
EXTENDS Integers, Sequences, FiniteSets, TLC

VARIABLES
    tool,          \* the tool the orchestrator invoked, "idle" before
    pc,            \* position of the invocation in its code
    args,          \* the arguments of the invocation
    url,           \* the local `url` of the running tool
    sent,          \* the last outbound request handed to the transport
    nreq,          \* outbound requests issued by this invocation (saturates at MaxReq)
    resp,          \* the last answer of the transport
    result,        \* the value the tool returned
    results,       \* get_paginated_content: local `results`
    start_cursor,  \* get_paginated_content: local `start_cursor`
    count,         \* get_paginated_content: local `count`
    pageLog,       \* get_paginated_content: the non-empty `results` lists received, in request order
    stack,         \* get_page_content_optimized: the activations of the function, innermost last
    appended,      \* get_page_content_optimized: the last formatted block appended, and how it came about
    budget,        \* child-bearing blocks the server may still serve to this invocation
    walkLog,       \* get_page_content_optimized: the requests issued, each as the path of its block
    page_data      \* get_task_details: local `page_data`

vars == <<tool, pc, args, url, sent, nreq, resp, result,
          results, start_cursor, count, pageLog,
          stack, appended, budget, walkLog, page_data>>

pagVars == <<results, start_cursor, count, pageLog>>
walkVars == <<stack, appended, budget, walkLog>>

-----------------------------------------------------------------------------
(* Bounds of the model *)

MaxReq == 4      \* nreq stops counting here
MaxCap == 150    \* largest max_blocks the orchestrator passes
MaxDepth == 3    \* largest max_depth the orchestrator passes
MaxNodes == 3    \* child-bearing blocks in the server's tree below the entry identifier

-----------------------------------------------------------------------------
(* Python values *)

NONE == "<None>"
EmptyDict == [k \in {} |-> k]
NoArgs == EmptyDict
NoResult == [pending |-> TRUE]
NoResponse == [kind |-> "none"]
NoRequest == [method |-> "", url |-> <<>>, params |-> EmptyDict, json |-> EmptyDict]

\* dict.get(k, default)
Get(d, k, default) == IF k \in DOMAIN d THEN d[k] ELSE default

\* truth value of an Optional[str]
TruthyStr(s) == s # NONE /\ s # ""

\* truth value of a dict or of a list
TruthyColl(v) == DOMAIN v # {}

Min(a, b) == IF a <= b THEN a ELSE b

\* ceil(a / b) for a >= 0, b > 0
CeilDiv(a, b) == (a + b - 1) \div b

-----------------------------------------------------------------------------
(* Identifiers and URLs *)

BASE_URL == <<"https://api.notion.com/v1/">>

HYPHEN == "-"

\* identifiers the orchestrator passes, with and without separators
Ids == { <<"a", "-", "1">>, <<"b", "2">> }

\* str(None), what an f-string prints for data_base_id = None
NoneId == <<"None">>

\* page_id.replace("-", "")
StripHyphens(id) == SelectSeq(id, LAMBDA ch : ch # HYPHEN)

HasHyphen(s) == \E i \in 1..Len(s) : s[i] = HYPHEN

-----------------------------------------------------------------------------
(* The transport and the upstream server *)

Request(method, u, params, json) ==
    [method |-> method, url |-> u, params |-> params, json |-> json]

\* bodies of successful answers to the single-call tools
Bodies == { [object |-> "page", id |-> <<"a", "1">>],
            [object |-> "list", results |-> <<>>, has_more |-> FALSE] }

\* answers with a status other than 200: status code and raw text
ErrorResponses ==
    { [kind |-> "response", status_code |-> 404, text |-> "Not found"],
      [kind |-> "response", status_code |-> 201, text |-> "Created"],
      [kind |-> "response", status_code |-> 500, text |-> ""] }

OkResponse(body) ==
    [kind |-> "response", status_code |-> 200, text |-> "<json>", json |-> body]

\* the transport raising instead of answering (requests.RequestException)
Raises == { [kind |-> "raise", exception |-> "ConnectionError"] }

\* the value with which an exception leaves a tool
Raised(e) == [raised |-> e]

\* a variant that also reports the status under a key of its own
ErrorValueWithStatus(r) ==
    [error |-> <<"Erro ", r.status_code, ": ", r.text>>, status |-> r.status_code]

\* {"error": f"Erro {response.status_code}: {response.text}"}
ErrorValue(r) == [error |-> <<"Erro ", r.status_code, ": ", r.text>>]

IsError(v) == "error" \in DOMAIN v

CountReq(n) == IF n < MaxReq THEN n + 1 ELSE n

-----------------------------------------------------------------------------
(* The single-call tools: one request, then the common tail                *)
(*     if response.status_code != 200: return {"error": ...}               *)
(*     return response.json()                                              *)

SingleTools == { "notion_query_databases", "get_notion_page", "get_page_content",
                 "update_page_properties", "create_page", "append_page_content",
                 "search_notion" }

\* values of the arguments that are passed through to the request body
Filters == { EmptyDict, [property |-> "Status", status |-> [equals |-> "Done"]] }
SortLists == { <<>>, <<[property |-> "Last update", direction |-> "descending"]>> }
PropertyDicts == { EmptyDict, [Status |-> [status |-> [name |-> "Done"]]] }
BlockLists == { <<>>, <<[object |-> "block", type |-> "divider"]>> }

\* the tail shared by every single-call tool
Answer(r) ==
    IF r.status_code # 200 THEN ErrorValue(r) ELSE r.json

\* a tool hands `req` to the transport and waits for its answer
Send(t, a, req) ==
    /\ tool' = t
    /\ args' = a
    /\ url' = req.url
    /\ sent' = req
    /\ nreq' = CountReq(nreq)
    /\ pc' = "await"
    /\ UNCHANGED <<resp, result, pagVars, walkVars, page_data>>

\* the request of notion_query_databases
QueryRequest(filter, sorts, cursor, page_size, data_base_id) ==
    Request("POST",
            BASE_URL \o <<"databases/">> \o data_base_id \o <<"/query">>,
            EmptyDict,
            (IF TruthyColl(filter) THEN [filter |-> filter] ELSE EmptyDict)
            @@ (IF TruthyColl(sorts) THEN [sorts |-> sorts] ELSE EmptyDict)
            @@ (IF TruthyStr(cursor) THEN [start_cursor |-> cursor] ELSE EmptyDict)
            @@ (IF page_size # 0 THEN [page_size |-> page_size] ELSE EmptyDict))

notion_query_databases ==
    /\ pc = "idle"
    /\ \E filter \in Filters, sorts \in SortLists, cursor \in {NONE, "c1"},
       page_size \in {0, 100}, data_base_id \in Ids \cup {NoneId} :
        Send("notion_query_databases",
             [filter |-> filter, sorts |-> sorts, start_cursor |-> cursor,
              page_size |-> page_size, data_base_id |-> data_base_id],
             QueryRequest(filter, sorts, cursor, page_size, data_base_id))

\* the request of get_notion_page
PageRequest(page_id) ==
    Request("GET", BASE_URL \o <<"pages/">> \o StripHyphens(page_id),
            EmptyDict, EmptyDict)

get_notion_page ==
    /\ pc = "idle"
    /\ \E page_id \in Ids :
        Send("get_notion_page", [page_id |-> page_id], PageRequest(page_id))

get_page_content ==
    /\ pc = "idle"
    /\ \E page_id \in Ids :
        Send("get_page_content", [page_id |-> page_id],
             Request("GET",
                     BASE_URL \o <<"blocks/">> \o StripHyphens(page_id) \o <<"/children">>,
                     EmptyDict, EmptyDict))

update_page_properties ==
    /\ pc = "idle"
    /\ \E page_id \in Ids, properties \in PropertyDicts :
        Send("update_page_properties", [page_id |-> page_id, properties |-> properties],
             Request("PATCH", BASE_URL \o <<"pages/">> \o StripHyphens(page_id),
                     EmptyDict, [properties |-> properties]))

create_page ==
    /\ pc = "idle"
    /\ \E parent_id \in Ids, properties \in PropertyDicts, content \in BlockLists,
       is_database \in BOOLEAN :
        Send("create_page",
             [parent_id |-> parent_id, properties |-> properties,
              content |-> content, is_database |-> is_database],
             Request("POST", BASE_URL \o <<"pages">>, EmptyDict,
                     [parent |-> IF is_database
                                 THEN [database_id |-> StripHyphens(parent_id)]
                                 ELSE [page_id |-> StripHyphens(parent_id)],
                      properties |-> properties]
                     @@ (IF TruthyColl(content) THEN [children |-> content] ELSE EmptyDict)))

append_page_content ==
    /\ pc = "idle"
    /\ \E page_id \in Ids, blocks \in BlockLists :
        Send("append_page_content", [page_id |-> page_id, blocks |-> blocks],
             Request("PATCH",
                     BASE_URL \o <<"blocks/">> \o StripHyphens(page_id) \o <<"/children">>,
                     EmptyDict, [children |-> blocks]))

search_notion ==
    /\ pc = "idle"
    /\ \E query \in {"", "task"}, filter_type \in {NONE, "page"}, sort \in Filters,
       page_size \in {100} :
        Send("search_notion",
             [query |-> query, filter_type |-> filter_type, sort |-> sort,
              page_size |-> page_size],
             Request("POST", BASE_URL \o <<"search">>, EmptyDict,
                     [query |-> query, page_size |-> page_size]
                     @@ (IF TruthyStr(filter_type)
                         THEN [filter |-> [value |-> filter_type, property |-> "object"]]
                         ELSE EmptyDict)
                     @@ (IF TruthyColl(sort) THEN [sort |-> sort] ELSE EmptyDict)))

\* the transport answers a single-call tool, which returns
single_call_return ==
    /\ pc = "await"
    /\ tool \in SingleTools
    /\ \E r \in ErrorResponses \cup {OkResponse(b) : b \in Bodies} \cup Raises :
        /\ resp' = r
        /\ result' = IF r.kind = "raise" THEN Raised(r.exception) ELSE Answer(r)
    /\ pc' = "done"
    /\ UNCHANGED <<tool, args, url, sent, nreq, pagVars, walkVars, page_data>>

-----------------------------------------------------------------------------
(* get_paginated_content *)

PAGE_SIZE == 100

\* what the orchestrator passes as max_blocks
Caps == { 0, 1, PAGE_SIZE, PAGE_SIZE + 1, MaxCap }

\* a `results` list of n raw block records
RawBlocks(tag, n) == [i \in 1..n |-> [object |-> "block", id |-> <<tag, i>>]]

\* the lists the server may put in a page: empty, short, full, and over-long
PageLists == { RawBlocks(tag, n) : tag \in {"x", "y"}, n \in {0, 50, PAGE_SIZE, PAGE_SIZE + 50} }

\* the bodies of the 200 answers to a children request; any key may be missing
ChildrenBodies ==
    { [results |-> l, has_more |-> h, next_cursor |-> c] :
        l \in PageLists, h \in BOOLEAN, c \in {NONE, "", "c1", "c2"} }
    \cup { [results |-> l] : l \in PageLists }
    \cup { [results |-> l, has_more |-> TRUE] : l \in PageLists }
    \cup { [has_more |-> h, next_cursor |-> "c1"] : h \in BOOLEAN }

\* return {"results": results, "count": count}
PaginatedResult(res, n) == [results |-> res, count |-> n]

\* a variant whose loop still runs when the count equals the cap
LoopConditionInclusive(n, max_blocks) == n <= max_blocks

\* the loop condition
LoopCondition(n, max_blocks) == n < max_blocks

\* a variant that puts the new page in front
ExtendResultsFront(res, block_results) == block_results \o res

\* results.extend(block_results)
ExtendResults(res, block_results) == res \o block_results

get_paginated_content ==
    /\ pc = "idle"
    /\ \E page_id \in Ids, max_blocks \in Caps :
        /\ args' = [page_id |-> page_id, max_blocks |-> max_blocks]
        /\ url' = BASE_URL \o <<"blocks/">> \o StripHyphens(page_id) \o <<"/children">>
    /\ tool' = "get_paginated_content"
    /\ results' = <<>>
    /\ start_cursor' = NONE
    /\ count' = 0
    /\ pc' = "loop"
    /\ UNCHANGED <<sent, nreq, resp, result, pageLog, walkVars, page_data>>

\* a variant that never passes the cursor on
PageParamsFirstPage(cursor) == [page_size |-> PAGE_SIZE]

\* the `params` of a page request
PageParams(cursor) ==
    [page_size |-> PAGE_SIZE]
    @@ (IF TruthyStr(cursor) THEN [start_cursor |-> cursor] ELSE EmptyDict)

\* a variant that hands back what was accumulated along with the error
PageFailurePartial(r, res, n) == ErrorValue(r) @@ [results |-> res, count |-> n]

\* what the loop returns on an answer with a status other than 200
PageFailure(r, res, n) == ErrorValue(r)

\* one more iteration: the request of the page
paginated_request ==
    /\ tool = "get_paginated_content"
    /\ pc = "loop"
    /\ LoopCondition(count, args.max_blocks)
    /\ sent' = Request("GET", url, PageParams(start_cursor), EmptyDict)
    /\ nreq' = CountReq(nreq)
    /\ pc' = "await"
    /\ UNCHANGED <<tool, args, url, resp, result, pagVars, walkVars, page_data>>

\* the rest of the iteration, on the transport's answer
paginated_response ==
    /\ tool = "get_paginated_content"
    /\ pc = "await"
    /\ \E r \in ErrorResponses \cup {OkResponse(b) : b \in ChildrenBodies} \cup Raises :
        /\ resp' = r
        /\ IF r.kind = "raise"
           THEN /\ result' = Raised(r.exception)
                /\ pc' = "done"
                /\ UNCHANGED <<results, start_cursor, count, pageLog>>
           ELSE IF r.status_code # 200
           THEN /\ result' = PageFailure(r, results, count)
                /\ pc' = "done"
                /\ UNCHANGED <<results, start_cursor, count, pageLog>>
           ELSE LET data == r.json
                    block_results == Get(data, "results", <<>>)
                    res == ExtendResults(results, block_results)
                    n == count + Len(block_results)
                    next == Get(data, "next_cursor", NONE)
                IN  /\ results' = res
                    /\ count' = n
                    /\ pageLog' = IF block_results = <<>> THEN pageLog
                                  ELSE Append(pageLog, block_results)
                    /\ IF ~ Get(data, "has_more", FALSE)
                       THEN /\ result' = PaginatedResult(res, n)
                            /\ pc' = "done"
                            /\ UNCHANGED start_cursor
                       ELSE /\ start_cursor' = next
                            /\ IF ~ TruthyStr(next)
                               THEN /\ result' = PaginatedResult(res, n)
                                    /\ pc' = "done"
                               ELSE /\ pc' = "loop"
                                    /\ UNCHANGED result
    /\ UNCHANGED <<tool, args, url, sent, nreq, walkVars, page_data>>

\* the loop condition fails: the return after the loop
paginated_return ==
    /\ tool = "get_paginated_content"
    /\ pc = "loop"
    /\ ~ LoopCondition(count, args.max_blocks)
    /\ result' = PaginatedResult(results, count)
    /\ pc' = "done"
    /\ UNCHANGED <<tool, args, url, sent, nreq, resp, pagVars, walkVars, page_data>>

-----------------------------------------------------------------------------
(* Text and property extraction.  A str built by " ".join is the sequence  *)
(* of its pieces, "" is the empty sequence.                                 *)

RECURSIVE JoinSpace(_)
\* " ".join(parts)
JoinSpace(parts) ==
    IF parts = <<>> THEN <<>>
    ELSE IF Len(parts) = 1 THEN <<parts[1]>>
    ELSE <<parts[1], " ">> \o JoinSpace(Tail(parts))

extract_text_from_rich_text(rich_text) ==
    LET kept == SelectSeq(rich_text,
                          LAMBDA o : "text" \in DOMAIN o /\ "content" \in DOMAIN o.text)
        text_parts == [k \in 1..Len(kept) |-> kept[k].text.content]
    IN  JoinSpace(text_parts)

format_block(block) ==
    LET block_id == Get(block, "id", <<>>)
        block_type == Get(block, "type", "unknown")
        has_children == Get(block, "has_children", FALSE)
        formatted == [id |-> block_id, type |-> block_type, has_children |-> has_children]
    IN  IF block_type \in DOMAIN block
        THEN LET content_data == block[block_type]
                 withText ==
                     IF "rich_text" \in DOMAIN content_data
                     THEN formatted
                          @@ [text |-> extract_text_from_rich_text(content_data.rich_text)]
                     ELSE formatted
             IN  IF block_type = "to_do"
                 THEN withText @@ [checked |-> Get(content_data, "checked", FALSE)]
                 ELSE IF block_type = "code"
                 THEN withText @@ [language |-> Get(content_data, "language", "")]
                 ELSE IF block_type = "image"
                 THEN IF "file" \in DOMAIN content_data
                      THEN withText @@ [url |-> Get(content_data.file, "url", "")]
                      ELSE IF "external" \in DOMAIN content_data
                      THEN withText @@ [url |-> Get(content_data.external, "url", "")]
                      ELSE withText
                 ELSE withText
        ELSE formatted

extract_title(title_prop) ==
    LET title_array == Get(title_prop, "title", <<>>)
    IN  IF ~ TruthyColl(title_array) THEN <<>>
        ELSE JoinSpace([k \in 1..Len(title_array) |-> Get(title_array[k], "plain_text", "")])

extract_status(status_prop) ==
    LET status == Get(status_prop, "status", EmptyDict)
    IN  IF TruthyColl(status) THEN Get(status, "name", "") ELSE ""

extract_people_names(people_prop) ==
    LET people_array == Get(people_prop, "people", <<>>)
        named == SelectSeq(people_array, LAMBDA person : "name" \in DOMAIN person)
    IN  [k \in 1..Len(named) |-> named[k].name]

extract_select(select_prop) ==
    LET select == Get(select_prop, "select", EmptyDict)
    IN  IF TruthyColl(select) THEN Get(select, "name", "") ELSE ""

extract_multi_select(multi_select_prop) ==
    LET multi_select_array == Get(multi_select_prop, "multi_select", <<>>)
        named == SelectSeq(multi_select_array, LAMBDA option : "name" \in DOMAIN option)
    IN  [k \in 1..Len(named) |-> named[k].name]

extract_rich_text(rich_text_prop) ==
    extract_text_from_rich_text(Get(rich_text_prop, "rich_text", <<>>))

-----------------------------------------------------------------------------
(* get_task_details: what it returns once both of its calls have answered  *)

\* the tail of get_task_details, from the test of content_data on
TaskDetailsResult(page, content_data) ==
    IF IsError(content_data)
    THEN [page |-> page, content_error |-> content_data.error]
    ELSE LET properties == Get(page, "properties", EmptyDict)
         IN  [id |-> Get(page, "id", <<>>),
              title |-> extract_title(Get(properties, "Title", EmptyDict)),
              status |-> extract_status(Get(properties, "Status", EmptyDict)),
              owner |-> extract_people_names(Get(properties, "Owner", EmptyDict)),
              team |-> extract_people_names(Get(properties, "Team", EmptyDict)),
              system |-> extract_select(Get(properties, "System", EmptyDict)),
              last_update |-> Get(Get(properties, "Last update", EmptyDict),
                                  "last_edited_time", ""),
              created_at |-> Get(Get(properties, "Created at", EmptyDict),
                                 "created_time", ""),
              tags |-> extract_multi_select(Get(properties, "Tags", EmptyDict)),
              description |-> extract_rich_text(Get(properties, "Description", EmptyDict)),
              content |-> Get(content_data, "blocks", <<>>)]

-----------------------------------------------------------------------------
(* get_page_content_optimized: the recursion is a stack of activations     *)

DEFAULT_MAX_BLOCKS == 100
CHILD_MAX_BLOCKS == 50
TASK_MAX_DEPTH == 2

NoAppend == [fetch |-> "nothing"]

\* blocks the server holds
BlockA == [object |-> "block", id |-> <<"a", "-", "1">>, type |-> "paragraph",
           has_children |-> TRUE,
           paragraph |-> [rich_text |-> <<[text |-> [content |-> "Buy"]],
                                          [type |-> "mention"],
                                          [text |-> [content |-> "milk"]]>>]]
BlockB == [object |-> "block", id |-> <<"b", "-", "2">>, type |-> "to_do",
           has_children |-> TRUE,
           to_do |-> [rich_text |-> <<[text |-> [content |-> "Buy milk"]]>>,
                      checked |-> TRUE]]
BlockC == [object |-> "block", id |-> <<"c", "3">>, type |-> "divider",
           divider |-> EmptyDict]
BlockD == [object |-> "block", type |-> "image", has_children |-> TRUE,
           image |-> [file |-> [url |-> "A"], external |-> [url |-> "B"]]]

\* the `results` lists of the server's answers to the walker
WalkLists == { <<>>, <<BlockA>>, <<BlockA, BlockB>>, <<BlockC, BlockA>>,
               <<BlockA, BlockC>>, <<BlockD, BlockC>> }

WalkBodies ==
    { [results |-> l, has_more |-> h] : l \in WalkLists, h \in BOOLEAN }
    \cup { [object |-> "list"] }

\* an answer with status 200 whose body response.json() cannot parse
MalformedResponse == [kind |-> "response", status_code |-> 200, text |-> "<html>"]

\* the child-bearing blocks of a body
ChildBearing(body) ==
    LET l == Get(body, "results", <<>>)
    IN  Cardinality({k \in 1..Len(l) : Get(l[k], "has_children", FALSE)})

Top == stack[Len(stack)]

\* lines 108-111: the activation strips the identifier, builds its url and sends its request
Activation(page_id, max_depth, max_blocks) ==
    LET id == StripHyphens(page_id)
    IN  [page_id |-> id, max_depth |-> max_depth, max_blocks |-> max_blocks,
         url |-> BASE_URL \o <<"blocks/">> \o id \o <<"/children?page_size=">>
                 \o <<ToString(max_blocks)>>,
         pc |-> "await", response |-> NoResponse, data |-> EmptyDict, i |-> 0,
         formatted_blocks |-> <<>>, formatted_block |-> EmptyDict]

\* a variant that still descends when max_depth is 1
DescendAtDepthOne(max_depth, block) == max_depth >= 1 /\ Get(block, "has_children", FALSE)

\* a variant that passes its own max_depth on to the recursive call
ChildDepthSame(max_depth) == max_depth

\* the max_depth the walker passes to its recursive call
ChildDepth(max_depth) == max_depth - 1

\* the condition under which the walker fetches the children of a block
Descend(max_depth, block) == max_depth > 1 /\ Get(block, "has_children", FALSE)

\* a variant that walks the list from its end: for block in reversed(...)
BlockIndexReversed(f) == Len(f.data.results) - f.i + 1

\* the position in the server's list of the block the loop of activation f is at
BlockIndex(f) == f.i

\* the block the loop of activation f is at
CurrentBlock(f) == f.data.results[BlockIndex(f)]

\* the position in the server's tree of the block whose children the innermost
\* activation is about to request: its index at every level, outermost first
PathOf(frames) == [d \in 1..Len(frames) |-> BlockIndex(frames[d])]

\* what the caller of the walker does with its value
Continuation(v) ==
    IF tool = "get_task_details" THEN TaskDetailsResult(page_data, v) ELSE v

\* formatted_blocks.append(formatted_block), and the record of how it came about
AppendBlock(frames, fb, fetch, status) ==
    LET f == frames[Len(frames)]
        block == CurrentBlock(f)
    IN  /\ stack' = [frames EXCEPT ![Len(frames)] =
                        [f EXCEPT !.formatted_blocks = Append(@, fb),
                                  !.i = @ + 1,
                                  !.formatted_block = EmptyDict]]
        /\ appended' = [block |-> fb,
                        has_children |-> Get(block, "has_children", FALSE),
                        max_depth |-> f.max_depth,
                        fetch |-> fetch,
                        status |-> status]

\* a variant that does not test the value for "error"
WithChildrenAlways(fb, child_blocks) ==
    fb @@ [children |-> Get(child_blocks, "blocks", <<>>)]

\* what the caller's loop body does with the value of the recursive call
WithChildren(fb, child_blocks) ==
    IF ~ IsError(child_blocks)
    THEN fb @@ [children |-> Get(child_blocks, "blocks", <<>>)]
    ELSE fb

\* except Exception as e: formatted_block["children_error"] = str(e)
WithChildrenError(fb, e) == fb @@ [children_error |-> e]

\* the innermost activation returns v; its request was answered with `status`
ReturnValue(v, status) ==
    IF Len(stack) = 1
    THEN /\ stack' = <<>>
         /\ result' = Continuation(v)
         /\ pc' = "done"
         /\ UNCHANGED appended
    ELSE LET callers == SubSeq(stack, 1, Len(stack) - 1)
             fb == callers[Len(callers)].formatted_block
         IN  /\ AppendBlock(callers, WithChildren(fb, v), "returned", status)
             /\ UNCHANGED <<result, pc>>

\* an exception e leaves the innermost activation; `status` is that of the
\* answer to its request, 0 if the transport raised
Unwind(e, status) ==
    IF Len(stack) = 1
    THEN /\ stack' = <<>>
         /\ result' = Raised(e)
         /\ pc' = "done"
         /\ UNCHANGED appended
    ELSE LET callers == SubSeq(stack, 1, Len(stack) - 1)
             fb == callers[Len(callers)].formatted_block
         IN  /\ AppendBlock(callers, WithChildrenError(fb, e), "raised", status)
             /\ UNCHANGED <<result, pc>>

get_page_content_optimized ==
    /\ pc = "idle"
    /\ \E page_id \in Ids, max_depth \in 1..MaxDepth, max_blocks \in {DEFAULT_MAX_BLOCKS} :
        LET f == Activation(page_id, max_depth, max_blocks)
        IN  /\ args' = [page_id |-> page_id, max_depth |-> max_depth,
                        max_blocks |-> max_blocks]
            /\ stack' = <<f>>
            /\ sent' = Request("GET", f.url, EmptyDict, EmptyDict)
    /\ walkLog' = <<PathOf(<<>>)>>
    /\ tool' = "get_page_content_optimized"
    /\ nreq' = CountReq(nreq)
    /\ pc' = "walk"
    /\ UNCHANGED <<url, resp, result, pagVars, appended, budget, page_data>>

\* the transport answers the innermost activation
walk_response ==
    /\ pc = "walk"
    /\ Top.pc = "await"
    /\ \E r \in ErrorResponses \cup Raises \cup {MalformedResponse}
                \cup {OkResponse(b) : b \in {bb \in WalkBodies : ChildBearing(bb) <= budget}} :
        /\ resp' = r
        /\ IF r.kind = "raise"
           THEN Unwind(r.exception, 0) /\ UNCHANGED budget
           ELSE IF r.status_code # 200
           THEN ReturnValue(ErrorValue(r), r.status_code) /\ UNCHANGED budget
           ELSE IF "json" \notin DOMAIN r
           THEN Unwind("JSONDecodeError", r.status_code) /\ UNCHANGED budget
           ELSE /\ stack' = [stack EXCEPT ![Len(stack)] =
                                [@ EXCEPT !.pc = "loop", !.response = r,
                                          !.data = r.json, !.i = 1]]
                /\ budget' = budget - ChildBearing(r.json)
                /\ UNCHANGED <<result, pc, appended>>
    /\ UNCHANGED <<tool, args, url, sent, nreq, pagVars, walkLog, page_data>>

\* one iteration of the loop over data.get("results", [])
walk_block ==
    /\ pc = "walk"
    /\ Top.pc = "loop"
    /\ Top.i <= Len(Get(Top.data, "results", <<>>))
    /\ LET block == CurrentBlock(Top)
           formatted_block == format_block(block)
       IN  IF Descend(Top.max_depth, block)
           THEN IF "id" \in DOMAIN block
                THEN LET f == Activation(block.id, ChildDepth(Top.max_depth), CHILD_MAX_BLOCKS)
                     IN  /\ stack' = Append([stack EXCEPT ![Len(stack)].formatted_block =
                                                 formatted_block], f)
                         /\ sent' = Request("GET", f.url, EmptyDict, EmptyDict)
                         /\ nreq' = CountReq(nreq)
                         /\ walkLog' = Append(walkLog, PathOf(stack))
                         /\ UNCHANGED appended
                ELSE /\ AppendBlock(stack, WithChildrenError(formatted_block, "'id'"),
                                    "raised", 0)
                     /\ UNCHANGED <<sent, nreq, walkLog>>
           ELSE /\ AppendBlock(stack, formatted_block, "none", 0)
                /\ UNCHANGED <<sent, nreq, walkLog>>
    /\ UNCHANGED <<tool, pc, args, url, resp, result, pagVars, budget, page_data>>

\* the loop is over: the activation returns its blocks
walk_return ==
    /\ pc = "walk"
    /\ Top.pc = "loop"
    /\ Top.i > Len(Get(Top.data, "results", <<>>))
    /\ ReturnValue([blocks |-> Top.formatted_blocks,
                    count |-> Len(Top.formatted_blocks),
                    has_more |-> Get(Top.data, "has_more", FALSE)],
                   Top.response.status_code)
    /\ UNCHANGED <<tool, args, url, sent, nreq, resp, pagVars, budget, walkLog, page_data>>

-----------------------------------------------------------------------------
(* The composite tools: get_task_details, get_filtered_tasks,              *)
(* find_tasks_by_person and list_people_in_database                        *)

CompositeQueryTools == { "get_filtered_tasks", "find_tasks_by_person",
                         "list_people_in_database" }

\* display names, as sequences of characters
Ana == <<"A", "n", "a">>
Bob == <<"B", "o", "b">>

\* pages of the task database
TaskPage1 ==
    [id |-> <<"t", "-", "1">>,
     properties |->
        [Title |-> [title |-> <<[plain_text |-> "Fix"], [plain_text |-> "bug"]>>],
         Status |-> [status |-> [name |-> "Doing"]],
         Owner |-> [people |-> <<[name |-> Ana], [id |-> "u9"]>>],
         Team |-> [people |-> <<[name |-> Bob], [name |-> Ana]>>],
         System |-> [select |-> [name |-> "Core"]],
         Tags |-> [multi_select |-> <<[name |-> "p1"], [color |-> "red"]>>],
         Description |-> [rich_text |-> <<[text |-> [content |-> "see log"]]>>]]
        @@ ("Last update" :> [last_edited_time |-> "2024-05-01"])
        @@ ("Created at" :> [created_time |-> "2024-04-01"])]
TaskPage2 ==
    [id |-> <<"t", "2">>,
     properties |->
        [Status |-> [status |-> EmptyDict],
         Owner |-> [people |-> <<[name |-> Bob], [name |-> <<>>]>>],
         Team |-> [people |-> <<[name |-> Bob]>>]]]
TaskPage3 == [id |-> <<"t", "3">>]

TaskPages == { TaskPage1, TaskPage2, TaskPage3 }

\* bodies of the 200 answers to a database query
QueryBodies ==
    { [results |-> <<TaskPage1, TaskPage2>>, has_more |-> TRUE],
      [results |-> <<TaskPage2, TaskPage3, TaskPage1>>, has_more |-> FALSE],
      [results |-> <<>>, has_more |-> FALSE],
      [object |-> "list"] }

LAST_UPDATE_SORT == <<[property |-> "Last update", direction |-> "descending"]>>

create_status_filter(status) ==
    [property |-> "Status", status |-> [equals |-> status]]

create_owner_filter_by_name(person_name) ==
    [property |-> "Owner", people |-> [contains |-> person_name]]

create_team_member_filter(person_name) ==
    [property |-> "Team", people |-> [contains |-> person_name]]

create_combined_filter(filters, operator) == operator :> filters

\* str.lower() on the characters the names are made of
LowerChar(ch) ==
    CASE ch = "A" -> "a"
      [] ch = "B" -> "b"
      [] OTHER -> ch

Lower(s) == [k \in 1..Len(s) |-> LowerChar(s[k])]

\* the operator `in` on two strs
Contains(s, sub) ==
    \E k \in 0..(Len(s) - Len(sub)) : SubSeq(s, k + 1, k + Len(sub)) = sub

\* the code point of a character
Ord(ch) ==
    CASE ch = "A" -> 65
      [] ch = "B" -> 66
      [] ch = "a" -> 97
      [] ch = "b" -> 98
      [] ch = "n" -> 110
      [] ch = "o" -> 111

RECURSIVE StrLess(_, _)
\* a < b on strs
StrLess(a, b) ==
    IF b = <<>> THEN FALSE
    ELSE IF a = <<>> THEN TRUE
    ELSE IF Ord(a[1]) # Ord(b[1]) THEN Ord(a[1]) < Ord(b[1])
    ELSE StrLess(Tail(a), Tail(b))

RECURSIVE InsertByName(_, _)
InsertByName(sorted, entry) ==
    IF sorted = <<>> THEN <<entry>>
    ELSE IF StrLess(entry.name, sorted[1].name) THEN <<entry>> \o sorted
    ELSE <<sorted[1]>> \o InsertByName(Tail(sorted), entry)

RECURSIVE SortByName(_)
\* people_list.sort(key=lambda x: x["name"]), a stable sort
SortByName(list) ==
    IF list = <<>> THEN <<>>
    ELSE InsertByName(SortByName(SubSeq(list, 1, Len(list) - 1)), list[Len(list)])

\* people_dict is the sequence of its values in insertion order
InDict(people_dict, person) ==
    \E k \in 1..Len(people_dict) : people_dict[k].name = person

HasRole(people_dict, person, role) ==
    \E k \in 1..Len(people_dict) :
        /\ people_dict[k].name = person
        /\ \E j \in 1..Len(people_dict[k].roles) : people_dict[k].roles[j] = role

\* the body of the loops over owners and over team_members
AddPerson(people_dict, person, role) ==
    IF person # <<>> /\ ~ InDict(people_dict, person)
    THEN Append(people_dict, [name |-> person, roles |-> <<role>>])
    ELSE IF person # <<>> /\ ~ HasRole(people_dict, person, role)
    THEN [k \in 1..Len(people_dict) |->
            IF people_dict[k].name = person
            THEN [people_dict[k] EXCEPT !.roles = Append(@, role)]
            ELSE people_dict[k]]
    ELSE people_dict

RECURSIVE AddPeople(_, _, _)
AddPeople(people_dict, persons, role) ==
    IF persons = <<>> THEN people_dict
    ELSE AddPeople(AddPerson(people_dict, persons[1], role), Tail(persons), role)

RECURSIVE CollectPeople(_, _)
\* the loop over result.get("results", [])
CollectPeople(people_dict, pages) ==
    IF pages = <<>> THEN people_dict
    ELSE LET properties == Get(pages[1], "properties", EmptyDict)
             owners == extract_people_names(Get(properties, "Owner", EmptyDict))
             team_members == extract_people_names(Get(properties, "Team", EmptyDict))
         IN  CollectPeople(AddPeople(AddPeople(people_dict, owners, "owner"),
                                     team_members, "team"),
                           Tail(pages))

\* get_filtered_tasks, from the answer of notion_query_databases on
FilteredTasksResult(res) ==
    LET pages == Get(res, "results", <<>>)
        simplified_tasks ==
            [k \in 1..Len(pages) |->
                LET properties == Get(pages[k], "properties", EmptyDict)
                IN  [id |-> Get(pages[k], "id", <<>>),
                     title |-> extract_title(Get(properties, "Title", EmptyDict)),
                     status |-> extract_status(Get(properties, "Status", EmptyDict)),
                     owner |-> extract_people_names(Get(properties, "Owner", EmptyDict)),
                     team |-> extract_people_names(Get(properties, "Team", EmptyDict)),
                     system |-> extract_select(Get(properties, "System", EmptyDict)),
                     last_update |-> Get(Get(properties, "Last update", EmptyDict),
                                         "last_edited_time", "")]]
    IN  [tasks |-> simplified_tasks,
         count |-> Len(simplified_tasks),
         has_more |-> Get(res, "has_more", FALSE)]

\* find_tasks_by_person, from the answer of notion_query_databases on
FindTasksResult(res, person_name, role) ==
    LET pages == Get(res, "results", <<>>)
        tasks ==
            [k \in 1..Len(pages) |->
                LET properties == Get(pages[k], "properties", EmptyDict)
                    owner_names == extract_people_names(Get(properties, "Owner", EmptyDict))
                    team_names == extract_people_names(Get(properties, "Team", EmptyDict))
                IN  [id |-> Get(pages[k], "id", <<>>),
                     title |-> extract_title(Get(properties, "Title", EmptyDict)),
                     status |-> extract_status(Get(properties, "Status", EmptyDict)),
                     system |-> extract_select(Get(properties, "System", EmptyDict)),
                     last_update |-> Get(Get(properties, "Last update", EmptyDict),
                                         "last_edited_time", ""),
                     is_owner |-> \E j \in 1..Len(owner_names) :
                                     Contains(Lower(owner_names[j]), Lower(person_name)),
                     is_team_member |-> \E j \in 1..Len(team_names) :
                                     Contains(Lower(team_names[j]), Lower(person_name)),
                     owners |-> owner_names,
                     team |-> team_names]]
    IN  [tasks |-> tasks,
         count |-> Len(tasks),
         has_more |-> Get(res, "has_more", FALSE),
         filter_used |-> [person_name |-> person_name, role |-> role]]

\* list_people_in_database, from the answer of notion_query_databases on
ListPeopleResult(res, limit) ==
    LET pages == Get(res, "results", <<>>)
        people_list == SortByName(CollectPeople(<<>>, pages))
    IN  [people |-> people_list,
         count |-> Len(people_list),
         pages_checked |-> Min(Len(pages), limit)]

\* what a composite tool makes of the value of its notion_query_databases call
CompositeResult(res) ==
    CASE tool = "get_filtered_tasks" -> FilteredTasksResult(res)
      [] tool = "find_tasks_by_person" ->
            FindTasksResult(res, args.person_name, args.role)
      [] tool = "list_people_in_database" -> ListPeopleResult(res, args.limit)

get_task_details ==
    /\ pc = "idle"
    /\ \E task_id \in Ids :
        Send("get_task_details", [task_id |-> task_id], PageRequest(task_id))

\* get_notion_page answers get_task_details, which goes on to the content
task_details_page ==
    /\ pc = "await"
    /\ tool = "get_task_details"
    /\ \E r \in ErrorResponses \cup {OkResponse(b) : b \in TaskPages} \cup Raises :
        /\ resp' = r
        /\ IF r.kind = "raise"
           THEN /\ result' = Raised(r.exception)
                /\ pc' = "done"
                /\ UNCHANGED <<page_data, stack, sent, nreq, walkLog>>
           ELSE IF IsError(Answer(r))
           THEN /\ result' = Answer(r)
                /\ page_data' = Answer(r)
                /\ pc' = "done"
                /\ UNCHANGED <<stack, sent, nreq, walkLog>>
           ELSE LET f == Activation(args.task_id, TASK_MAX_DEPTH, DEFAULT_MAX_BLOCKS)
                IN  /\ page_data' = Answer(r)
                    /\ stack' = <<f>>
                    /\ sent' = Request("GET", f.url, EmptyDict, EmptyDict)
                    /\ nreq' = CountReq(nreq)
                    /\ walkLog' = <<PathOf(<<>>)>>
                    /\ pc' = "walk"
                    /\ UNCHANGED result
    /\ UNCHANGED <<tool, args, url, pagVars, appended, budget>>

get_filtered_tasks ==
    /\ pc = "idle"
    /\ \E status \in {NONE, "Done"}, owner_email \in {NONE, "ana@example.com"},
          system \in {NONE, "Core"}, limit \in {1, 10} :
        LET a == [status |-> status, owner_email |-> owner_email,
                  system |-> system, limit |-> limit]
            filters ==
                (IF TruthyStr(status) THEN <<create_status_filter(status)>> ELSE <<>>)
                \o (IF TruthyStr(system)
                    THEN <<[property |-> "System", select |-> [equals |-> system]]>>
                    ELSE <<>>)
            filter_query == IF TruthyColl(filters)
                            THEN create_combined_filter(filters, "and") ELSE EmptyDict
        IN  IF TruthyStr(owner_email)
            THEN \* create_owner_filter is not defined anywhere: NameError
                 /\ tool' = "get_filtered_tasks"
                 /\ args' = a
                 /\ result' = Raised("NameError")
                 /\ pc' = "done"
                 /\ UNCHANGED <<url, sent, nreq, resp, pagVars, walkVars, page_data>>
            ELSE Send("get_filtered_tasks", a,
                      QueryRequest(filter_query, LAST_UPDATE_SORT, NONE, limit, NoneId))

find_tasks_by_person ==
    /\ pc = "idle"
    /\ \E person_name \in {<<"a", "n">>, Bob}, role \in {"owner", "team", "any", "lead"},
          limit \in {20} :
        LET filters ==
                (IF role = "owner" \/ role = "any"
                 THEN <<create_owner_filter_by_name(person_name)>> ELSE <<>>)
                \o (IF role = "team" \/ role = "any"
                    THEN <<create_team_member_filter(person_name)>> ELSE <<>>)
            filter_query == IF role = "any"
                            THEN create_combined_filter(filters, "or")
                            ELSE create_combined_filter(filters, "and")
        IN  Send("find_tasks_by_person",
                 [person_name |-> person_name, role |-> role, limit |-> limit],
                 QueryRequest(filter_query, LAST_UPDATE_SORT, NONE, limit, NoneId))

list_people_in_database ==
    /\ pc = "idle"
    /\ \E limit \in {1, 50} :
        Send("list_people_in_database", [limit |-> limit],
             QueryRequest(EmptyDict, LAST_UPDATE_SORT, NONE, limit, NoneId))

\* notion_query_databases answers a composite tool, which returns
composite_return ==
    /\ pc = "await"
    /\ tool \in CompositeQueryTools
    /\ \E r \in ErrorResponses \cup {OkResponse(b) : b \in QueryBodies} \cup Raises :
        /\ resp' = r
        /\ result' = IF r.kind = "raise" THEN Raised(r.exception)
                     ELSE CompositeResult(Answer(r))
    /\ pc' = "done"
    /\ UNCHANGED <<tool, args, url, sent, nreq, pagVars, walkVars, page_data>>

-----------------------------------------------------------------------------

Init ==
    /\ tool = "idle"
    /\ pc = "idle"
    /\ args = NoArgs
    /\ url = <<>>
    /\ sent = NoRequest
    /\ nreq = 0
    /\ resp = NoResponse
    /\ result = NoResult
    /\ results = <<>>
    /\ start_cursor = NONE
    /\ count = 0
    /\ pageLog = <<>>
    /\ stack = <<>>
    /\ appended = NoAppend
    /\ budget = MaxNodes
    /\ walkLog = <<>>
    /\ page_data = EmptyDict

Next ==
    \/ notion_query_databases
    \/ get_notion_page
    \/ get_page_content
    \/ update_page_properties
    \/ create_page
    \/ append_page_content
    \/ search_notion
    \/ single_call_return
    \/ get_paginated_content
    \/ paginated_request
    \/ paginated_response
    \/ paginated_return
    \/ get_page_content_optimized
    \/ walk_response
    \/ walk_block
    \/ walk_return
    \/ get_task_details
    \/ task_details_page
    \/ get_filtered_tasks
    \/ find_tasks_by_person
    \/ list_people_in_database
    \/ composite_return

Spec == Init /\ [][Next]_vars

\* an invocation that can take a step takes one: the interpreter runs the tool,
\* and the transport answers every request or raises
FairSpec == Spec /\ WF_vars(Next)

-----------------------------------------------------------------------------
(* Properties *)

Paginating == tool = "get_paginated_content"
Walking == tool = "get_page_content_optimized"
Answered == resp.kind = "response"
Failed == Answered /\ resp.status_code # 200

\* the error value the interface promises for the last answer, written out
PromisedError == [error |-> <<"Erro ", resp.status_code, ": ", resp.text>>]

RECURSIVE Concat(_)
\* the concatenation of a sequence of lists
Concat(lists) == IF lists = <<>> THEN <<>> ELSE lists[1] \o Concat(Tail(lists))

\* every page received so far respected the requested page size
PagesWithinPageSize == \A k \in 1..Len(pageLog) : Len(pageLog[k]) <= PAGE_SIZE

\* C1: every invocation of get_paginated_content eventually returns, whatever
\* pages the server sends.
C1_PaginationTerminates == Paginating ~> (pc = "done")

\* C2: an invocation of get_paginated_content with cap c issues at most
\* ceil(c / 100) page requests.
C2_RequestBound ==
    Paginating => nreq <= CeilDiv(args.max_blocks, PAGE_SIZE)

\* C3: get_page_content_optimized called with max_depth = 1 issues exactly one
\* request and never has a second activation, whatever has_children says.
C3_DepthOneSingleRequest ==
    (Walking /\ args.max_depth = 1) => (nreq = 1 /\ Len(stack) <= 1)

C3_Witness ==
    /\ Walking
    /\ args.max_depth = 1
    /\ pc = "done"
    /\ "blocks" \in DOMAIN result
    /\ \E k \in 1..Len(result.blocks) : result.blocks[k].has_children

\* C4: a formatted block carries `children` only if its source block reported
\* has_children, the max_depth in force was greater than 1, and the fetch of its
\* children was answered with status 200 and returned without raising; this
\* holds of the block just appended and of every block of every activation.
C4_ChildrenOnlyIf ==
    /\ (appended # NoAppend /\ "children" \in DOMAIN appended.block) =>
          /\ appended.has_children
          /\ appended.max_depth > 1
          /\ appended.fetch = "returned"
          /\ appended.status = 200
    /\ \A d \in 1..Len(stack) :
          \A k \in 1..Len(stack[d].formatted_blocks) :
              "children" \in DOMAIN stack[d].formatted_blocks[k] =>
                  /\ stack[d].formatted_blocks[k].has_children
                  /\ stack[d].max_depth > 1

C4_Witness ==
    /\ appended # NoAppend
    /\ "children" \in DOMAIN appended.block
    /\ appended.block.children # <<>>
    /\ Len(stack) = 2

\* C5: a single-call tool returns exactly {"error": "Erro <status>: <text>"} on
\* any status other than 200 and the parsed body on 200; the walker and the
\* paginator return that error value when their first request fails.
C5_UniformError ==
    /\ (pc = "done" /\ tool \in SingleTools /\ Answered) =>
          result = IF resp.status_code = 200 THEN resp.json ELSE PromisedError
    /\ (pc = "done" /\ (Walking \/ Paginating) /\ nreq = 1 /\ Failed) =>
          result = PromisedError

C5_Witness ==
    /\ pc = "done"
    /\ tool = "get_notion_page"
    /\ Answered
    /\ resp.status_code = 404
    /\ result = [error |-> <<"Erro ", 404, ": ", "Not found">>]

\* C6: no identifier in the path or the body of an outbound request contains a
\* hyphen.
C6_NoHyphenOutbound ==
    /\ ~ HasHyphen(sent.url)
    /\ "parent" \in DOMAIN sent.json =>
          \A key \in DOMAIN sent.json.parent : ~ HasHyphen(sent.json.parent[key])

\* C7: when get_paginated_content returns its blocks, `results` is the
\* concatenation, in request order, of the lists of the pages it fetched, and
\* `count` is the length of that list.
C7_Concatenation ==
    (Paginating /\ pc = "done" /\ "results" \in DOMAIN result) =>
        /\ result.results = Concat(pageLog)
        /\ result.count = Len(result.results)

C7_Witness ==
    /\ Paginating
    /\ pc = "done"
    /\ "results" \in DOMAIN result
    /\ Len(pageLog) = 2
    /\ pageLog[1] # pageLog[2]
    /\ result.count = Len(pageLog[1]) + Len(pageLog[2])

\* the fetch of the children of the block just appended failed
ChildFetchFailed ==
    /\ appended # NoAppend
    /\ \/ appended.fetch = "raised"
       \/ appended.fetch = "returned" /\ appended.status # 200

\* C8: when the fetch of a block's children fails, by a status other than 200
\* or by an exception, the walk goes on and the block carries an error marker.
C8_ChildFailureMarked ==
    ChildFetchFailed => (pc = "walk" /\ "children_error" \in DOMAIN appended.block)

\* the last answer was to a top-level call of the running composite tool
TopLevelCall ==
    \/ tool \in CompositeQueryTools
    \/ tool = "get_task_details" /\ nreq <= 2

\* C9: a composite tool returns the error value itself when one of its
\* top-level upstream calls fails.
C9_TopLevelFailureReturned ==
    (pc = "done" /\ TopLevelCall /\ Failed) => result = PromisedError

RECURSIVE PreOrderBefore(_, _)
\* path p comes before path q in the depth-first pre-order of the server's tree:
\* a block before the blocks below it, a block's subtree before its later siblings
PreOrderBefore(p, q) ==
    IF p = <<>> THEN q # <<>>
    ELSE IF q = <<>> THEN FALSE
    ELSE IF p[1] # q[1] THEN p[1] < q[1]
    ELSE PreOrderBefore(Tail(p), Tail(q))

\* the activations whose request has not been answered yet
Outstanding == {d \in 1..Len(stack) : stack[d].pc = "await"}

\* C11: the walker issues its requests one at a time in depth-first pre-order:
\* the request log is strictly increasing in pre-order, so every request of an
\* earlier sibling's subtree precedes every request of a later sibling's, and
\* only the innermost activation can have a request outstanding.
C11_SequentialPreOrder ==
    /\ \A j \in 1..Len(walkLog) : \A k \in 1..Len(walkLog) :
          j < k => PreOrderBefore(walkLog[j], walkLog[k])
    /\ Outstanding \subseteq {Len(stack)}
    /\ Cardinality(Outstanding) <= 1

C11_Witness ==
    /\ pc = "done"
    /\ \E j \in 1..Len(walkLog) : \E k \in 1..Len(walkLog) :
          /\ j < k
          /\ walkLog[j] = <<1, 1>>
          /\ walkLog[k] = <<2>>

\* the walker is running, invoked directly or by get_task_details
WalkerRunning == pc = "walk"

\* the max_depth of the outermost call of the walker
EntryDepth ==
    IF tool = "get_task_details" THEN TASK_MAX_DEPTH ELSE args.max_depth

Max(a, b) == IF a >= b THEN a ELSE b

RECURSIVE Nesting(_)
\* the number of levels of `children` in a list of formatted blocks
Nesting(blocks) ==
    IF blocks = <<>> THEN 0
    ELSE Max(IF "children" \in DOMAIN blocks[1]
             THEN 1 + Nesting(blocks[1].children) ELSE 0,
             Nesting(Tail(blocks)))

\* the depth budget in every state of a walk
DepthBudget ==
    /\ WalkerRunning =>
          /\ stack[1].max_depth = EntryDepth
          /\ \A d \in 2..Len(stack) :
                /\ stack[d].max_depth = stack[d - 1].max_depth - 1
                /\ stack[d].max_blocks = CHILD_MAX_BLOCKS
                /\ stack[d].url[Len(stack[d].url)] = "50"
          /\ Len(stack) <= EntryDepth
          /\ \A j \in 1..Len(walkLog) : Len(walkLog[j]) <= EntryDepth - 1
          /\ \A d \in 1..Len(stack) :
                Nesting(stack[d].formatted_blocks) <= stack[d].max_depth - 1
    /\ (pc = "done" /\ (Walking \/ tool = "get_task_details")
          /\ "blocks" \in DOMAIN result) =>
          Nesting(result.blocks) <= EntryDepth - 1
    /\ (pc = "done" /\ tool = "get_task_details" /\ "content" \in DOMAIN result) =>
          Nesting(result.content) <= EntryDepth - 1

\* C12: every recursion level of the walker runs with max_depth one less than
\* its caller and page size 50, no request goes deeper than max_depth - 1 levels
\* below the entry identifier, `children` never nests deeper than that, and a
\* walk of a finite server tree returns.
C12_DepthBudget == []DepthBudget /\ (WalkerRunning ~> (pc = "done"))

C12_Witness ==
    /\ Walking
    /\ pc = "done"
    /\ args.max_depth = MaxDepth
    /\ "blocks" \in DOMAIN result
    /\ Nesting(result.blocks) = MaxDepth - 1

\* the last answer was a page that lets the loop go on
PageContinues ==
    /\ Answered
    /\ resp.status_code = 200
    /\ Get(resp.json, "has_more", FALSE)
    /\ TruthyStr(Get(resp.json, "next_cursor", NONE))

\* C13: every request of get_paginated_content carries page_size 100; the first
\* carries no start_cursor, every later one carries the next_cursor of the
\* answer just before it; and after a page without has_more or without a cursor
\* the invocation is over.
C13_CursorChain ==
    /\ (Paginating /\ pc = "await") =>
          /\ sent.params.page_size = 100
          /\ (nreq = 1) <=> (resp = NoResponse)
          /\ resp = NoResponse => "start_cursor" \notin DOMAIN sent.params
          /\ resp # NoResponse =>
                /\ PageContinues
                /\ "start_cursor" \in DOMAIN sent.params
                /\ sent.params.start_cursor = resp.json.next_cursor
    /\ (Paginating /\ Answered /\ resp.status_code = 200 /\ ~ PageContinues) =>
          pc = "done"

C13_Witness ==
    /\ Paginating
    /\ pc = "await"
    /\ nreq = 3
    /\ PageContinues
    /\ sent.params.start_cursor = "c2"

\* C14: a page request answered with a status other than 200, the first or a
\* later one, ends the invocation at once with the error value alone: no
\* further request, and none of the accumulated blocks in the result.
C14_FailureDropsPages ==
    (Paginating /\ Failed) =>
        /\ pc = "done"
        /\ result = PromisedError
        /\ DOMAIN result = {"error"}
        /\ sent.params = PageParams(start_cursor)

C14_Witness ==
    /\ Paginating
    /\ Failed
    /\ pc = "done"
    /\ nreq = 3
    /\ count > 0
    /\ Len(pageLog) = 2
    /\ result = [error |-> <<"Erro ", 500, ": ", "">>]

====
